---- MODULE Spec2Model ----
(***************************************************************************)
(* Model of app.py, the 33Studio finance dashboard (a Streamlit script).   *)
(*                                                                         *)
(* The script is run from top to bottom once per user interaction and per  *)
(* browser session.  A run is modelled in two steps so that runs of        *)
(* different sessions can interleave as the script threads do:             *)
(*   1. the head of the script: login gate, Logout button, idle timeout    *)
(*      and "Load Data" (app.py lines 60-133);                             *)
(*   2. the page selected in the sidebar, with at most one button pressed  *)
(*      (app.py lines 173-531).                                            *)
(* CSV files hold text cells; data frames hold typed cells; to_csv and     *)
(* read_csv convert between the two.  Free-text columns that no statement  *)
(* of the script branches on (Contact, Employee of a project, Role of a    *)
(* salary, Notes, dates, payment method) are left out of the rows.         *)
(***************************************************************************)
EXTENDS Integers, Sequences, FiniteSets, TLC

\* ------------------------------------------------------------------ bounds
MaxRows  == 2      \* rows a table (file or grid) may hold
MaxEdits == 1      \* pending edits a data_editor widget may hold
MaxMonth == 2      \* calendar months the clock runs through
TickStep == 8      \* minutes the clock advances in one step

\* ------------------------------------------------------- program constants
IdleTimeout == 15  \* timedelta(minutes=15)

Sessions == {"s1", "s2"}

FILES == {"clients", "projects", "salaries", "expenses", "monthly", "users"}

ArchTables == {"projects", "salaries", "expenses", "monthly"}

COLUMNS(t) ==
  CASE t = "clients"  -> {"Client", "Total Paid", "Total Due"}
    [] t = "projects" -> {"Client", "Project", "Budget", "Payment 20%",
                          "Payment 40%", "Payment 40% (2)", "Paid Status"}
    [] t = "salaries" -> {"Employee", "Salary", "Paid"}
    [] t = "expenses" -> {"Category", "Amount"}
    [] t = "monthly"  -> {"Client", "Amount", "Paid"}
    [] OTHER          -> {"Username", "Password", "Role"}

Milestones == <<"Payment 20%", "Payment 40%", "Payment 40% (2)">>

\* ------------------------------------------------------------------- cells
\* A data-frame cell: a float, a missing value (NaN/None) or a string.
Num(n) == [k |-> "num", n |-> n, s |-> ""]
NaN    == [k |-> "nan", n |-> 0, s |-> ""]
Str(x) == [k |-> "str", n |-> 0, s |-> x]

\* The amounts the forms and grids are fed with.
Amounts == {0, 200, 400, 1000}

\* str(float) as to_csv writes it.
FloatRepr(n) ==
  CASE n = 0    -> "0.0"
    [] n = 200  -> "200.0"
    [] n = 400  -> "400.0"
    [] n = 1000 -> "1000.0"
    [] OTHER    -> "inf"

Numerals == {FloatRepr(n) : n \in Amounts}

\* float(text) as read_csv / to_numeric parse it.
ParseFloat(x) == CHOOSE n \in Amounts : FloatRepr(n) = x

\* DataFrame.to_csv(index=False): a missing value is written as the empty
\* field, and so is the empty string.
ToCsvCell(c) ==
  CASE c.k = "num" -> FloatRepr(c.n)
    [] c.k = "nan" -> ""
    [] OTHER       -> c.s

to_csv(df) == [i \in DOMAIN df |-> [f \in DOMAIN df[i] |-> ToCsvCell(df[i][f])]]

\* pandas infers one dtype per column: float64 when every non-empty field
\* parses as a number, object (strings) otherwise.
NumericColumn(rows, f) ==
  \A i \in DOMAIN rows : rows[i][f] = "" \/ rows[i][f] \in Numerals

ReadCsvCell(rows, i, f) ==
  IF rows[i][f] = "" THEN NaN
  ELSE IF NumericColumn(rows, f) THEN Num(ParseFloat(rows[i][f]))
  ELSE Str(rows[i][f])

read_csv(rows) ==
  [i \in DOMAIN rows |-> [f \in DOMAIN rows[i] |-> ReadCsvCell(rows, i, f)]]

\* ------------------------------------------------------------ authentication
Usernames == {"ann", "bob", "eve"}
Passwords == {"pw1", "pw2"}

\* hashlib.sha256(password.encode()).hexdigest(): a 64-digit digest, one
\* per password.
hash_password(p) ==
  CASE p = "pw1" -> "c592df4a86933b92addc9842402ddf198c638ea9be58916ee6e3734e1e3152f8"
    [] p = "pw2" -> "93915a0a4bf8f634cb1856494dd4304472ad46b9827f541f76b6761c49cc55b0"
    [] OTHER     -> "e3b0c44298fc1c149afbf4c8996fb92427ae41e4649b934ca495991b7852b855"

\* check_credentials: the first users row with that Username decides.
RECURSIVE FirstUser(_, _, _)
FirstUser(users, username, i) ==
  IF i > Len(users) THEN 0
  ELSE IF users[i]["Username"] = username THEN i
  ELSE FirstUser(users, username, i + 1)

\* Mutant: the password comparison is dropped.
check_credentials_any_password(users, username, password) ==
  LET i == FirstUser(users, username, 1) IN
  IF i # 0
  THEN [ok |-> TRUE,  role |-> users[i]["Role"]]
  ELSE [ok |-> FALSE, role |-> "None"]

check_credentials(users, username, password) ==
  LET i == FirstUser(users, username, 1) IN
  IF i # 0 /\ users[i]["Password"] = hash_password(password)
  THEN [ok |-> TRUE,  role |-> users[i]["Role"]]
  ELSE [ok |-> FALSE, role |-> "None"]

\* Mutant: a role that is not in the map gets the staff permissions.
PERMISSIONS_default_staff(r) ==
  IF r = "admin"
  THEN {"edit_clients",
        "edit_projects", "archive_projects", "add_project",
        "edit_salaries", "archive_salaries", "add_salary",
        "edit_expenses", "archive_expenses", "add_expense",
        "edit_monthly", "archive_monthly", "add_monthly",
        "admin_panel"}
  ELSE {"edit_clients",
        "edit_projects", "add_project",
        "edit_salaries", "add_salary",
        "edit_expenses", "add_expense",
        "edit_monthly", "add_monthly"}

PERMISSIONS(r) ==
  CASE r = "admin" -> {"edit_clients",
                       "edit_projects", "archive_projects", "add_project",
                       "edit_salaries", "archive_salaries", "add_salary",
                       "edit_expenses", "archive_expenses", "add_expense",
                       "edit_monthly", "archive_monthly", "add_monthly",
                       "admin_panel"}
    [] r = "staff" -> {"edit_clients",
                       "edit_projects", "add_project",
                       "edit_salaries", "add_salary",
                       "edit_expenses", "add_expense",
                       "edit_monthly", "add_monthly"}
    [] OTHER       -> {}


can(r, action) == action \in PERMISSIONS(r)

EditPerm(t) ==
  CASE t = "clients"  -> "edit_clients"
    [] t = "projects" -> "edit_projects"
    [] t = "salaries" -> "edit_salaries"
    [] t = "expenses" -> "edit_expenses"
    [] OTHER          -> "edit_monthly"

ArchivePerm(t) ==
  CASE t = "projects" -> "archive_projects"
    [] t = "salaries" -> "archive_salaries"
    [] t = "expenses" -> "archive_expenses"
    [] OTHER          -> "archive_monthly"

AddPerm(t) ==
  CASE t = "projects" -> "add_project"
    [] t = "salaries" -> "add_salary"
    [] t = "expenses" -> "add_expense"
    [] OTHER          -> "add_monthly"

\* ------------------------------------------------------------------- pages
TablePages == {"Clients", "Projects", "Salaries", "Expenses", "Monthly Plans"}

PageTable(p) ==
  CASE p = "Clients"  -> "clients"
    [] p = "Projects" -> "projects"
    [] p = "Salaries" -> "salaries"
    [] p = "Expenses" -> "expenses"
    [] p = "Admin Panel" -> "users"
    [] OTHER          -> "monthly"

pages(r) ==
  {"Dashboard", "Clients", "Projects", "Salaries", "Expenses",
   "Monthly Plans", "Invoice Generator", "View Archives"}
  \cup (IF can(r, "admin_panel") THEN {"Admin Panel"} ELSE {})

SavedMsg(t) ==
  CASE t = "clients"  -> "Clients saved."
    [] t = "projects" -> "Projects saved."
    [] t = "salaries" -> "Salaries saved."
    [] t = "expenses" -> "Expenses saved."
    [] OTHER          -> "Monthly plans saved."

ArchivedMsg(t) ==
  CASE t = "projects" -> "Projects archived."
    [] t = "salaries" -> "Salaries archived."
    [] t = "expenses" -> "Expenses archived."
    [] OTHER          -> "Monthly plans archived."

AddedMsg(t) ==
  CASE t = "projects" -> "New project added."
    [] t = "salaries" -> "New salary record added."
    [] t = "expenses" -> "New expense added."
    [] OTHER          -> "Monthly plan added."

\* ------------------------------------------------------------ form inputs
\* The rows the "Add ..." widgets are filled with.  Every field is a widget
\* of its own: the three milestone inputs and the Paid Status selectbox of
\* a project are entered by the user like the budget.
ProjectForms ==
  { [n_budget |-> 1000, n_p20 |-> 200, n_p40 |-> 400, n_p40_2 |-> 400,
     n_paid |-> "No"],
    [n_budget |-> 1000, n_p20 |-> 0, n_p40 |-> 0, n_p40_2 |-> 0,
     n_paid |-> "Yes"] }

NewProject(w) ==
  [f \in COLUMNS("projects") |->
     CASE f = "Client"          -> Str("acme")
       [] f = "Project"         -> Str("site")
       [] f = "Budget"          -> Num(w.n_budget)
       [] f = "Payment 20%"     -> Num(w.n_p20)
       [] f = "Payment 40%"     -> Num(w.n_p40)
       [] f = "Payment 40% (2)" -> Num(w.n_p40_2)
       [] OTHER                 -> Str(w.n_paid)]

NewSalary(e_paid) ==
  [f \in COLUMNS("salaries") |->
     CASE f = "Employee" -> Str("kim")
       [] f = "Salary"   -> Num(200)
       [] OTHER          -> Str(e_paid)]

NewExpense(ex_amt) ==
  [f \in COLUMNS("expenses") |->
     CASE f = "Category" -> Str("rent")
       [] OTHER          -> Num(ex_amt)]

NewMonthly(mp_paid) ==
  [f \in COLUMNS("monthly") |->
     CASE f = "Client" -> Str("acme")
       [] f = "Amount" -> Num(400)
       [] OTHER        -> Str(mp_paid)]

FormRows(t) ==
  CASE t = "projects" -> {NewProject(w) : w \in ProjectForms}
    [] t = "salaries" -> {NewSalary(y) : y \in {"No", "Yes"}}
    [] t = "expenses" -> {NewExpense(a) : a \in {200, 400}}
    [] t = "monthly"  -> {NewMonthly(y) : y \in {"No", "Yes"}}
    [] OTHER          -> {}

\* ------------------------------------------------------------ data_editor
\* The widget keeps the user's edits (st.session_state[key]) apart from the
\* data: cells changed, rows added at the end, rows deleted.  The widget is
\* identified by its key and the data it was drawn with: edits made over
\* one frame are dropped when the editor is drawn with another.
NoEdits == [data |-> <<>>, cells |-> {}, added |-> <<>>, deleted |-> {}]

EditCount(g) == Cardinality(g.cells) + Len(g.added) + Cardinality(g.deleted)

\* The values a user types into a cell of the grid.
EditChoices(t) ==
  CASE t = "clients"  -> {<<"Client", Str("acme")>>, <<"Total Paid", Num(200)>>}
    [] t = "projects" -> {<<"Payment 20%", Num(0)>>}
    [] t = "salaries" -> {<<"Paid", Str("Yes")>>}
    [] t = "expenses" -> {<<"Amount", Num(1000)>>}
    [] t = "users"    -> {<<"Role", Str("boss")>>, <<"Password", Str("pw2")>>}
    [] OTHER          -> {<<"Paid", Str("Yes")>>}

BlankRow(t) == [f \in COLUMNS(t) |-> NaN]

EditedCell(g, i, f, old) ==
  IF \E c \in g.cells : c.i = i /\ c.f = f
  THEN (CHOOSE c \in g.cells : c.i = i /\ c.f = f).v
  ELSE old

RECURSIVE DropRows(_, _, _)
DropRows(rows, deleted, i) ==
  IF i > Len(rows) THEN <<>>
  ELSE (IF i \in deleted THEN <<>> ELSE <<rows[i]>>)
       \o DropRows(rows, deleted, i + 1)

\* st.data_editor(df, num_rows="dynamic", key=...): the data with the
\* pending edits applied.
data_editor(df, g) ==
  LET all == df \o g.added
      edited == [i \in DOMAIN all |->
                   [f \in DOMAIN all[i] |-> EditedCell(g, i, f, all[i][f])]]
  IN  DropRows(edited, g.deleted, 1)

\* ------------------------------------------------------------------- state
VARIABLES
  files,     \* FILES: the CSV file of each table, a sequence of text rows
  archive,   \* ARCHIVE_DIR: <<table, month>> -> the snapshot file, if any
  month,     \* datetime.today(), to the month (the archive tag)
  auth,      \* st.session_state.auth, per session
  role,      \* st.session_state.role
  username,  \* st.session_state.username
  idle,      \* datetime.now() - st.session_state.last_active, in minutes
  form,      \* the Login form's widget values
  pc,        \* per session: "idle" between runs, "loaded" after Load Data
  page,      \* the sidebar radio
  df,        \* the data frames read by Load Data (clients_df, ...)
  grid,      \* the data_editor widget state of the page shown
  msg,       \* the st.success / st.error / st.warning notice of the run
  offered,   \* Invoice Generator: the "Next Milestone" line of the run
  invoices,  \* INV_DIR: client -> the invoice PDF written for it
  metrics    \* Dashboard: the four st.metric values of the run

vars == <<files, archive, month, auth, role, username, idle, form, pc, page,
          df, grid, msg, offered, invoices, metrics>>

session_state == <<auth, role, username, idle, form>>
screen == <<msg, offered, metrics>>

NoFrames == [t \in FILES |-> <<>>]
NoFile == [exists |-> FALSE, rows |-> <<>>]
NoOffer == [shown |-> "none", client |-> "", project |-> "", lbl |-> "", amt |-> 0]
NoMetrics == [shown |-> "none", inc |-> 0, out |-> 0, paid_sal |-> 0, exp_tot |-> 0]
NoInvoice == [project |-> "", lbl |-> "", amt |-> 0]

\* The users file is provisioned by hand (the script creates it empty and
\* only the Admin Panel edits it).  "eve" is stored with a clear password.
UsersFile ==
  << [Username |-> "ann", Password |-> hash_password("pw1"), Role |-> "admin"],
     [Username |-> "bob", Password |-> hash_password("pw2"), Role |-> "staff"],
     [Username |-> "bob", Password |-> hash_password("pw1"), Role |-> "admin"],
     [Username |-> "eve", Password |-> "pw2", Role |-> "view"] >>

EmptyFiles == [t \in FILES |-> IF t = "users" THEN UsersFile ELSE <<>>]

InitWith(fs) ==
  /\ files = fs
  /\ archive = [a \in ArchTables \X (1..MaxMonth) |-> NoFile]
  /\ month = 1
  /\ auth = [s \in Sessions |-> FALSE]
  /\ role = [s \in Sessions |-> "None"]
  /\ username = [s \in Sessions |-> ""]
  /\ idle = [s \in Sessions |-> 0]
  /\ form = [s \in Sessions |-> [user |-> "", pwd |-> ""]]
  /\ pc = [s \in Sessions |-> "idle"]
  /\ page = [s \in Sessions |-> "Dashboard"]
  /\ df = [s \in Sessions |-> NoFrames]
  /\ grid = [s \in Sessions |-> NoEdits]
  /\ msg = [s \in Sessions |-> ""]
  /\ offered = [s \in Sessions |-> NoOffer]
  /\ invoices = [c \in {"acme", "bolt"} |-> NoInvoice]
  /\ metrics = [s \in Sessions |-> NoMetrics]

Init == InitWith(EmptyFiles)


\* ------------------------------------------------------------- derived values
RECURSIVE SumSeq(_)
SumSeq(q) == IF q = <<>> THEN 0 ELSE Head(q) + SumSeq(Tail(q))

Column(rows, f) == [i \in DOMAIN rows |-> rows[i][f]]

\* pd.to_numeric(x, errors="coerce") followed by fillna(0)
to_numeric_fillna(c) ==
  CASE c.k = "num" -> c.n
    [] c.k = "str" /\ c.s \in Numerals -> ParseFloat(c.s)
    [] OTHER -> 0

\* Series.sum(): NaN is skipped; the sum of a column that holds strings is
\* no number (a concatenation or a TypeError), reported here as ok = FALSE.
SeriesSum(cells) ==
  IF \E i \in DOMAIN cells : cells[i].k = "str"
  THEN [ok |-> FALSE, v |-> 0]
  ELSE [ok |-> TRUE,
        v  |-> SumSeq([i \in DOMAIN cells |->
                         IF cells[i].k = "num" THEN cells[i].n ELSE 0])]

RECURSIVE Filter(_, _, _, _)
Filter(rows, f, c, i) ==
  IF i > Len(rows) THEN <<>>
  ELSE (IF rows[i][f] = c THEN <<rows[i]>> ELSE <<>>) \o Filter(rows, f, c, i + 1)

\* The four Dashboard aggregates; money() of a value that is no number
\* raises, and the run ends with no metric drawn.
Dashboard(d) ==
  LET inc == SumSeq([i \in DOMAIN d["clients"] |->
                       to_numeric_fillna(d["clients"][i]["Total Paid"])])
      out == SumSeq([i \in DOMAIN d["clients"] |->
                       to_numeric_fillna(d["clients"][i]["Total Due"])])
      paid_sal == SeriesSum(Column(Filter(d["salaries"], "Paid", Str("Yes"), 1),
                                   "Salary"))
      exp == SeriesSum(Column(d["expenses"], "Amount"))
  IN  IF paid_sal.ok /\ exp.ok
      THEN [shown |-> "metrics", inc |-> inc, out |-> out,
            paid_sal |-> paid_sal.v, exp_tot |-> exp.v + paid_sal.v]
      ELSE [shown |-> "exception", inc |-> 0, out |-> 0, paid_sal |-> 0,
            exp_tot |-> 0]

\* Invoice Generator: the loop over the three milestone labels.  0 when it
\* ends without a break, -1 when the comparison "text > 0" raises.
\* Mutant: the break is taken after the first label whatever its amount.
NextMilestone_break_always(sel, j) ==
  LET c == sel[Milestones[j]] IN
  IF c.k = "nan" THEN 0
  ELSE IF c.k = "str" THEN -1
  ELSE IF c.n > 0 THEN j
  ELSE 0

RECURSIVE NextMilestone(_, _)
NextMilestone(sel, j) ==
  IF j > Len(Milestones) THEN 0
  ELSE LET c == sel[Milestones[j]] IN
       IF c.k = "nan" THEN NextMilestone(sel, j + 1)
       ELSE IF c.k = "str" THEN -1
       ELSE IF c.n > 0 THEN j
       ELSE NextMilestone(sel, j + 1)

RECURSIVE FirstRow(_, _, _, _)
FirstRow(rows, client, project, i) ==
  IF i > Len(rows) THEN 0
  ELSE IF rows[i]["Client"] = client /\ rows[i]["Project"] = project THEN i
  ELSE FirstRow(rows, client, project, i + 1)

\* ----------------------------------------------------------------- the clock
Tick ==
  /\ \E s \in Sessions : idle[s] <= IdleTimeout
  /\ idle' = [s \in Sessions |->
                IF idle[s] <= IdleTimeout THEN idle[s] + TickStep ELSE idle[s]]
  /\ UNCHANGED <<files, archive, month, auth, role, username, form, pc, page,
                 df, grid, msg, offered, invoices, metrics>>

NextMonth ==
  /\ month < MaxMonth
  /\ month' = month + 1
  /\ UNCHANGED <<files, archive, auth, role, username, idle, form, pc, page,
                 df, grid, msg, offered, invoices, metrics>>

\* ------------------------------------------------------ the head of a run
ClearScreen(s) ==
  /\ offered' = [offered EXCEPT ![s] = NoOffer]
  /\ metrics' = [metrics EXCEPT ![s] = NoMetrics]

\* The Login form is submitted: the run ends at st.stop() or st.rerun().
Login(s, user, pwd) ==
  LET r == check_credentials(files["users"], user, pwd) IN
  /\ pc[s] = "idle"
  /\ ~auth[s]
  /\ form' = [form EXCEPT ![s] = [user |-> user, pwd |-> pwd]]
  /\ IF r.ok
     THEN /\ auth' = [auth EXCEPT ![s] = TRUE]
          /\ role' = [role EXCEPT ![s] = r.role]
          /\ username' = [username EXCEPT ![s] = user]
          /\ idle' = [idle EXCEPT ![s] = 0]
          /\ msg' = [msg EXCEPT ![s] = ""]
          /\ pc' = [pc EXCEPT ![s] = "rerun"]
     ELSE /\ msg' = [msg EXCEPT ![s] = "Invalid credentials"]
          /\ UNCHANGED <<auth, role, username, idle, pc>>
  /\ ClearScreen(s)
  /\ UNCHANGED <<files, archive, month, page, df, grid, invoices>>

\* The Logout button: auth is dropped and the rerun stops at the Login form.
\* The sidebar radio and the grids are not drawn in that run, so their
\* widget state is dropped: the next login starts on the Dashboard.
Logout(s) ==
  /\ pc[s] = "idle"
  /\ auth[s]
  /\ auth' = [auth EXCEPT ![s] = FALSE]
  /\ msg' = [msg EXCEPT ![s] = ""]
  /\ page' = [page EXCEPT ![s] = "Dashboard"]
  /\ grid' = [grid EXCEPT ![s] = NoEdits]
  /\ ClearScreen(s)
  /\ UNCHANGED <<files, archive, month, role, username, idle, form, pc, df,
                 invoices>>

\* A run of a session idle for more than 15 minutes.
AutoLogout(s) ==
  /\ pc[s] \in {"idle", "rerun"}
  /\ auth[s]
  /\ idle[s] > IdleTimeout
  /\ auth' = [auth EXCEPT ![s] = FALSE]
  /\ pc' = [pc EXCEPT ![s] = "idle"]
  /\ msg' = [msg EXCEPT ![s] = ""]
  /\ ClearScreen(s)
  /\ df' = [df EXCEPT ![s] = NoFrames]
  /\ page' = [page EXCEPT ![s] = "Dashboard"]
  /\ grid' = [grid EXCEPT ![s] = NoEdits]
  /\ UNCHANGED <<files, archive, month, role, username, idle, form, invoices>>

\* The gate is passed: last_active is reset, the six files are read, and
\* the sidebar radio holds page p.  A data_editor keeps its edits only
\* while it is drawn again over the same data.
LoadData(s, p) ==
  LET loaded == [t \in FILES |-> read_csv(files[t])] IN
  /\ pc[s] \in {"idle", "rerun"}
  /\ auth[s]
  /\ idle[s] <= IdleTimeout
  /\ p \in pages(role[s])
  /\ pc[s] = "rerun" => p = page[s]
  /\ idle' = [idle EXCEPT ![s] = 0]
  /\ df' = [df EXCEPT ![s] = loaded]
  /\ page' = [page EXCEPT ![s] = p]
  /\ grid' = [grid EXCEPT ![s] =
                IF /\ p = page[s]
                   /\ p \in TablePages \cup {"Admin Panel"}
                   /\ loaded[PageTable(p)] = grid[s].data
                THEN grid[s] ELSE NoEdits]
  /\ msg' = [msg EXCEPT ![s] = ""]
  /\ pc' = [pc EXCEPT ![s] = IF pc[s] = "rerun" THEN "reloaded" ELSE "loaded"]
  /\ ClearScreen(s)
  /\ UNCHANGED <<files, archive, month, auth, role, username, form, invoices>>

\* ------------------------------------------------------------------ helpers
\* Mutant: the file is opened in append mode.
save_df_append(d, t) == [files EXCEPT ![t] = @ \o to_csv(d)]

save_df(d, t) == [files EXCEPT ![t] = to_csv(d)]

\* What the table page works on: the grid's value for a role that may edit,
\* the loaded frame otherwise.
Shown(s, t) ==
  IF can(role[s], EditPerm(t)) THEN data_editor(df[s][t], grid[s]) ELSE df[s][t]

\* The run ends: the script's variables (the frames) are gone.
EndRun(s) ==
  /\ pc' = [pc EXCEPT ![s] = "idle"]
  /\ df' = [df EXCEPT ![s] = NoFrames]

\* ------------------------------------------------------------- table pages
\* The page is drawn and no button is pressed.
Render(s) ==
  /\ pc[s] \in {"loaded", "reloaded"}
  /\ page[s] \in TablePages \cup {"View Archives"}
  /\ EndRun(s)
  /\ UNCHANGED <<files, archive, month, session_state, page, grid, screen,
                 invoices>>

\* The edits a user can make in a grid of n rows: a cell typed over, a
\* blank row added at the end, a row deleted.
GridEdits(t, n) ==
  {[op |-> "cell", i |-> i, f |-> c[1], v |-> c[2]] :
      i \in 1..n, c \in EditChoices(t)}
  \cup {[op |-> "add", i |-> 0, f |-> "", v |-> NaN]}
  \cup {[op |-> "delete", i |-> i, f |-> "", v |-> NaN] : i \in 1..n}

CellEdits(t, n) == {e \in GridEdits(t, n) : e.op = "cell"}

Edited(g, t, e) ==
  CASE e.op = "cell" ->
         [g EXCEPT !.cells = {c \in @ : ~(c.i = e.i /\ c.f = e.f)}
                             \cup {[i |-> e.i, f |-> e.f, v |-> e.v]}]
    [] e.op = "add" -> [g EXCEPT !.added = Append(@, BlankRow(t))]
    [] OTHER -> [g EXCEPT !.deleted = @ \cup {e.i}]

\* The run was started by an edit in the grid; no button is pressed.
EditGrid(s, e) ==
  LET t == PageTable(page[s])
      g == [Edited(grid[s], t, e) EXCEPT !.data = df[s][t]]
  IN
  /\ pc[s] = "loaded"
  /\ page[s] \in TablePages
  /\ can(role[s], EditPerm(t))
  /\ e \in GridEdits(t, Len(df[s][t]) + Len(grid[s].added))
  /\ Edited(grid[s], t, e) # grid[s]
  /\ EditCount(g) <= MaxEdits
  /\ Len(df[s][t]) + Len(g.added) <= MaxRows
  /\ grid' = [grid EXCEPT ![s] = g]
  /\ EndRun(s)
  /\ UNCHANGED <<files, archive, month, session_state, page, screen,
                 invoices>>

\* "Save Clients", "Save Projects", ...
Save(s) ==
  LET t == PageTable(page[s]) IN
  /\ pc[s] = "loaded"
  /\ page[s] \in TablePages
  /\ can(role[s], EditPerm(t))
  /\ files' = save_df(Shown(s, t), t)
  /\ msg' = [msg EXCEPT ![s] = SavedMsg(t)]
  /\ EndRun(s)
  /\ UNCHANGED <<archive, month, session_state, page, grid, offered,
                 metrics, invoices>>

\* What "Archive Projects", ... do with the frame d in hand.
ArchiveWrite(d, t) ==
  /\ archive' = [archive EXCEPT ![<<t, month>>] =
                   [exists |-> TRUE, rows |-> to_csv(d)]]
  /\ UNCHANGED files

Archive(s) ==
  LET t == PageTable(page[s]) IN
  /\ pc[s] = "loaded"
  /\ page[s] \in TablePages
  /\ t \in ArchTables
  /\ can(role[s], ArchivePerm(t))
  /\ ArchiveWrite(Shown(s, t), t)
  /\ msg' = [msg EXCEPT ![s] = ArchivedMsg(t)]
  /\ EndRun(s)
  /\ UNCHANGED <<month, session_state, page, grid, offered, metrics,
                 invoices>>

\* "Add Project", "Add Salary Record", "Add Expense", "Add Monthly Plan":
\* the row is appended to the frame in hand, the file is rewritten, and the
\* script reruns.
Add(s, row) ==
  LET t == PageTable(page[s]) IN
  /\ pc[s] = "loaded"
  /\ page[s] \in TablePages
  /\ t \in ArchTables
  /\ can(role[s], AddPerm(t))
  /\ row \in FormRows(t)
  /\ Len(Shown(s, t)) < MaxRows
  /\ files' = save_df(Append(Shown(s, t), row), t)
  /\ msg' = [msg EXCEPT ![s] = AddedMsg(t)]
  /\ pc' = [pc EXCEPT ![s] = "rerun"]
  /\ UNCHANGED <<archive, month, session_state, page, df, grid, offered,
                 metrics, invoices>>

\* ------------------------------------------------------------------ Dashboard
ShowDashboard(s) ==
  /\ pc[s] \in {"loaded", "reloaded"}
  /\ page[s] = "Dashboard"
  /\ metrics' = [metrics EXCEPT ![s] = Dashboard(df[s])]
  /\ EndRun(s)
  /\ UNCHANGED <<files, archive, month, session_state, page, grid, msg,
                 offered, invoices>>

\* ---------------------------------------------------------- Invoice Generator
\* client and project are the two selectboxes; press tells whether the run
\* was started by the "Generate Invoice" button.
Invoice(s, client, project, press) ==
  LET d   == df[s]["projects"]
      i   == FirstRow(d, Str(client), Str(project), 1)
      sel == d[i]
      j   == NextMilestone(sel, 1)
      on  == [NoOffer EXCEPT !.client = client, !.project = project]
  IN
  /\ pc[s] \in {"loaded", "reloaded"}
  /\ page[s] = "Invoice Generator"
  /\ press => pc[s] = "loaded" /\ d # <<>> /\ i # 0 /\ j > 0
  /\ IF d = <<>>
     THEN /\ msg' = [msg EXCEPT ![s] = "No projects available."]
          /\ UNCHANGED <<offered, invoices>>
     ELSE /\ i # 0
          /\ UNCHANGED msg
          /\ IF j > 0
             THEN /\ offered' = [offered EXCEPT ![s] =
                       [on EXCEPT !.shown = "milestone", !.lbl = Milestones[j],
                                  !.amt = sel[Milestones[j]].n]]
                  /\ IF press
                     THEN invoices' = [invoices EXCEPT ![client] =
                            [project |-> project, lbl |-> Milestones[j],
                             amt |-> sel[Milestones[j]].n]]
                     ELSE UNCHANGED invoices
             ELSE /\ offered' = [offered EXCEPT ![s] =
                       [on EXCEPT !.shown =
                          IF j = 0 THEN "nothing" ELSE "exception"]]
                  /\ UNCHANGED invoices
  /\ EndRun(s)
  /\ UNCHANGED <<files, archive, month, session_state, page, grid, metrics>>

\* ---------------------------------------------------------------- Admin Panel
\* "Save Users": a Password that is not 64 characters long is replaced by
\* its digest.
HashUsers(d) ==
  [i \in DOMAIN d |->
     [d[i] EXCEPT !["Password"] =
        IF Len(@.s) # 64 THEN Str(hash_password(@.s)) ELSE @]]

\* The page is drawn and no button is pressed.  A role without
\* "admin_panel" gets the warning and the run stops.
AdminPanel(s) ==
  /\ pc[s] \in {"loaded", "reloaded"}
  /\ page[s] = "Admin Panel"
  /\ msg' = [msg EXCEPT ![s] =
               IF can(role[s], "admin_panel") THEN @
               ELSE "You don't have permission to view this page."]
  /\ EndRun(s)
  /\ UNCHANGED <<files, archive, month, session_state, page, grid, offered,
                 metrics, invoices>>

\* The run was started by an edit in the users grid.
EditUsers(s, e) ==
  LET g == [Edited(grid[s], "users", e) EXCEPT !.data = df[s]["users"]] IN
  /\ pc[s] = "loaded"
  /\ page[s] = "Admin Panel"
  /\ can(role[s], "admin_panel")
  /\ e \in GridEdits("users", Len(df[s]["users"]) + Len(grid[s].added))
  /\ Edited(grid[s], "users", e) # grid[s]
  /\ EditCount(g) <= MaxEdits
  /\ grid' = [grid EXCEPT ![s] = g]
  /\ EndRun(s)
  /\ UNCHANGED <<files, archive, month, session_state, page, screen,
                 invoices>>

\* "Save Users".  len() of a missing Password (a row added in the grid and
\* left blank) raises, and nothing is written.
SaveUsers(s) ==
  LET d == data_editor(df[s]["users"], grid[s]) IN
  /\ pc[s] = "loaded"
  /\ page[s] = "Admin Panel"
  /\ can(role[s], "admin_panel")
  /\ IF \A i \in DOMAIN d : d[i]["Password"].k = "str"
     THEN /\ files' = save_df(HashUsers(d), "users")
          /\ msg' = [msg EXCEPT ![s] = "Users updated."]
     ELSE /\ msg' = [msg EXCEPT ![s] = "TypeError"]
          /\ UNCHANGED files
  /\ EndRun(s)
  /\ UNCHANGED <<archive, month, session_state, page, grid, offered,
                 metrics, invoices>>

\* ------------------------------------------------------------ specifications
\* One session on the Dashboard and the Projects page: login, the grid,
\* Save, Archive and Add, over the calendar months.
Next ==
  \/ NextMonth
  \/ \E u \in Usernames, p \in Passwords : Login("s1", u, p)
  \/ \E p \in {"Dashboard", "Projects"} : LoadData("s1", p)
  \/ ShowDashboard("s1")
  \/ Render("s1")
  \/ \E e \in GridEdits("projects", MaxRows) : EditGrid("s1", e)
  \/ Save("s1")
  \/ Archive("s1")
  \/ \E row \in FormRows("projects") : Add("s1", row)

Spec == Init /\ [][Next]_vars

\* One session through the gate: login, logout, the idle timeout, and the
\* writes of the Projects page.
NextAuth ==
  \/ Tick
  \/ \E u \in Usernames, p \in Passwords : Login("s1", u, p)
  \/ Logout("s1")
  \/ AutoLogout("s1")
  \/ \E p \in {"Dashboard", "Projects"} : LoadData("s1", p)
  \/ ShowDashboard("s1")
  \/ Render("s1")
  \/ Save("s1")
  \/ Archive("s1")
  \/ \E row \in FormRows("projects") : Add("s1", row)

SpecAuth == Init /\ [][NextAuth]_vars

\* Two sessions on the Projects page at once: cells typed over in the grid,
\* Save and Add.  Each session adds a project of its own, and stays on the
\* Projects page once it has left the Dashboard.
RaceRow(s) ==
  NewProject(IF s = "s1"
             THEN [n_budget |-> 1000, n_p20 |-> 200, n_p40 |-> 400,
                   n_p40_2 |-> 400, n_paid |-> "No"]
             ELSE [n_budget |-> 1000, n_p20 |-> 0, n_p40 |-> 0,
                   n_p40_2 |-> 0, n_paid |-> "Yes"])

NextRace ==
  \E s \in Sessions :
    \/ Login(s, "ann", "pw1")
    \/ LoadData(s, IF pc[s] = "rerun" THEN page[s] ELSE "Projects")
    \/ ShowDashboard(s)
    \/ Render(s)
    \/ \E e \in CellEdits("projects", MaxRows) : EditGrid(s, e)
    \/ Save(s)
    \/ Add(s, RaceRow(s))

SpecRace == Init /\ [][NextRace]_vars

\* The Invoice Generator over the projects files of the bounded set below.
Tables(rows) == UNION {[1..n -> rows] : n \in 0..MaxRows}

InvoiceRows ==
  { [f \in COLUMNS("projects") |->
       CASE f = "Client"          -> "acme"
         [] f = "Project"         -> pr
         [] f = "Budget"          -> "1000.0"
         [] f = "Payment 20%"     -> a
         [] f = "Payment 40%"     -> b
         [] f = "Payment 40% (2)" -> c
         [] OTHER                 -> "No"] :
      pr \in {"site", "shop"}, a \in {"", "0.0", "200.0", "oops"},
      b \in {"0.0", "400.0"}, c \in {"", "400.0"} }

InitInvoice ==
  \E t \in Tables(InvoiceRows) : InitWith([EmptyFiles EXCEPT !["projects"] = t])

NextInvoice ==
  \/ \E p \in Passwords : Login("s1", "ann", p)
  \/ \E p \in {"Dashboard", "Invoice Generator"} : LoadData("s1", p)
  \/ ShowDashboard("s1")
  \/ \E pr \in {"site", "shop"}, press \in BOOLEAN :
       Invoice("s1", "acme", pr, press)

SpecInvoice == InitInvoice /\ [][NextInvoice]_vars

\* The Dashboard over the clients, salaries and expenses files of the
\* bounded sets below.
ClientRows ==
  { [f \in COLUMNS("clients") |->
       CASE f = "Client" -> "acme" [] f = "Total Paid" -> a [] OTHER -> b] :
      a \in {"", "200.0", "oops"}, b \in {"400.0"} }

SalaryRows ==
  { [f \in COLUMNS("salaries") |->
       CASE f = "Employee" -> "kim" [] f = "Salary" -> a [] OTHER -> y] :
      a \in {"", "200.0", "oops"}, y \in {"Yes", "No"} }

ExpenseRows ==
  { [f \in COLUMNS("expenses") |->
       CASE f = "Category" -> "rent" [] OTHER -> a] :
      a \in {"400.0", "oops"} }

InitDash ==
  \E c \in Tables(ClientRows), w \in Tables(SalaryRows), x \in Tables(ExpenseRows) :
    InitWith([EmptyFiles EXCEPT !["clients"] = c, !["salaries"] = w,
                                !["expenses"] = x])

NextDash ==
  \/ \E p \in Passwords : Login("s1", "ann", p)
  \/ LoadData("s1", "Dashboard")
  \/ ShowDashboard("s1")

SpecDash == InitDash /\ [][NextDash]_vars

\* One session under each role in turn: the users below log in and out,
\* and work on the Projects page and the Admin Panel.
RolesFile ==
  << [Username |-> "ann", Password |-> hash_password("pw1"), Role |-> "admin"],
     [Username |-> "bob", Password |-> hash_password("pw1"), Role |-> "staff"],
     [Username |-> "eve", Password |-> hash_password("pw1"), Role |-> "view"] >>

InitRoles == InitWith([EmptyFiles EXCEPT !["users"] = RolesFile])

\* The admin types another role over bob's or eve's, or adds a blank row.
UsersEdits ==
  {e \in GridEdits("users", Len(RolesFile)) :
     \/ e.op = "cell" /\ e.f = "Role" /\ e.i > 1
     \/ e.op = "add"}

NextRoles ==
  \/ \E u \in Usernames, p \in Passwords : Login("s1", u, p)
  \/ Logout("s1")
  \/ \E p \in {"Dashboard", "Projects", "Admin Panel"} : LoadData("s1", p)
  \/ ShowDashboard("s1")
  \/ Render("s1")
  \/ \E e \in CellEdits("projects", MaxRows) : EditGrid("s1", e)
  \/ Save("s1")
  \/ Archive("s1")
  \/ Add("s1", RaceRow("s1"))
  \/ AdminPanel("s1")
  \/ \E e \in UsersEdits : EditUsers("s1", e)
  \/ SaveUsers("s1")

SpecRoles == InitRoles /\ [][NextRoles]_vars


\* ------------------------------------------------------------------ claims
Range(q) == {q[i] : i \in DOMAIN q}

\* The step in which session s presses an Archive button of table t.
ArchiveStep(s, t) == pc[s] = "loaded" /\ msg'[s] = ArchivedMsg(t)

\* C1: after the archive action on a table, the next load of that table
\* returns a header-only table with zero rows.
C1_ArchiveResetsTable ==
  [][\A s \in Sessions, t \in ArchTables :
       ArchiveStep(s, t) => read_csv(files'[t]) = <<>>]_vars

\* C2: the snapshot written by the archive action holds exactly the rows of
\* the persisted table immediately before the archive, in the same order.
C2_SnapshotIsLiveTable ==
  [][\A s \in Sessions, t \in ArchTables :
       ArchiveStep(s, t) =>
         /\ archive'[<<t, month>>].exists
         /\ archive'[<<t, month>>].rows = files[t]]_vars

\* C3: a write replaces the whole file by the writer's own snapshot (the
\* frame it loaded, with its grid edits and the added row); rows of the file
\* that the snapshot lacks are gone; the writer is told of a success and no
\* other session is told anything.
C3_LastWriteWins ==
  [][\A t \in FILES : files'[t] # files[t] =>
       \E s \in Sessions :
         LET mine == to_csv(data_editor(df[s][t], grid[s])) IN
         /\ pc[s] = "loaded"
         /\ \/ files'[t] = mine /\ msg'[s] = SavedMsg(t)
            \/ /\ msg'[s] = AddedMsg(t)
               /\ \E row \in FormRows(t) :
                    files'[t] = mine \o to_csv(<<row>>)
         /\ \A r \in Range(files[t]) \ Range(mine) :
              r \in Range(files'[t]) => r \in {to_csv(<<row>>)[1] : row \in FormRows(t)}
         /\ \A o \in Sessions \ {s} : msg'[o] = msg[o]]_vars

\* Both sessions loaded the empty projects table, both added their project
\* with no grid edit pending, and the file holds the project of one of them.
C3_Witness ==
  /\ \A s \in Sessions :
       /\ pc[s] = "rerun"
       /\ msg[s] = AddedMsg("projects")
       /\ df[s]["projects"] = <<>>
       /\ grid[s] = NoEdits
  /\ \E s \in Sessions : files["projects"] = to_csv(<<RaceRow(s)>>)

\* C4: a session that is not authenticated has no page drawn; a file is
\* written only by a run of an authenticated session that passed the gate;
\* a session becomes authenticated only by a login whose username is in the
\* users table with the SHA-256 digest of the password typed.
C4_LoginGate ==
  /\ [](\A s \in Sessions :
          /\ pc[s] \in {"loaded", "reloaded"} => auth[s]
          /\ ~auth[s] => metrics[s] = NoMetrics /\ offered[s] = NoOffer)
  /\ [][/\ (files' # files \/ archive' # archive \/ invoices' # invoices) =>
            \E s \in Sessions : auth[s] /\ pc[s] = "loaded" /\ pc'[s] # "loaded"
        /\ \A s \in Sessions : ~auth[s] /\ auth'[s] =>
            /\ username'[s] = form'[s].user
            /\ \E i \in DOMAIN files["users"] :
                 /\ files["users"][i]["Username"] = form'[s].user
                 /\ files["users"][i]["Password"] = hash_password(form'[s].pwd)]_vars

\* bob logged in, added a project, was logged out by the idle timeout and
\* then failed a login.
C4_Witness ==
  /\ ~auth["s1"]
  /\ username["s1"] = "bob"
  /\ idle["s1"] > IdleTimeout
  /\ msg["s1"] = "Invalid credentials"
  /\ form["s1"].user = "eve"
  /\ files["projects"] # <<>>

\* C5: in the persisted projects table, Paid Status is "Paid" if and only
\* if the three milestone amounts are 0, and "Not Paid" otherwise.
AllMilestonesZero(r) == \A j \in DOMAIN Milestones : r[Milestones[j]] = Num(0)

C5_PaidStatusDerived ==
  \A r \in Range(read_csv(files["projects"])) :
    r["Paid Status"] = (IF AllMilestonesZero(r) THEN Str("Paid") ELSE Str("Not Paid"))

\* C6: adding a project with budget B stores a row whose milestones are
\* 20%, 40% and 40% of B and whose Paid Status is "Not Paid".
C6_AddSplitsBudget ==
  [][\A s \in Sessions :
       pc[s] = "loaded" /\ msg'[s] = AddedMsg("projects") =>
         LET d == read_csv(files'["projects"])
             r == d[Len(d)]
             B == r["Budget"].n
         IN /\ r["Payment 20%"] = Num((B * 20) \div 100)
            /\ r["Payment 40%"] = Num((B * 40) \div 100)
            /\ r["Payment 40% (2)"] = Num((B * 40) \div 100)
            /\ r["Paid Status"] = Str("Not Paid")]_vars

\* C7: for the selected project, when a milestone has an amount > 0, the
\* milestone offered (and invoiced) is the first such in the order
\* Payment 20%, Payment 40%, Payment 40% (2); a 0 or missing earlier
\* milestone is passed over.  Stated for rows whose milestone cells are
\* amounts or missing.
Selected(client, project) ==
  LET d == read_csv(files["projects"])
      hit(i) == d[i]["Client"] = Str(client) /\ d[i]["Project"] = Str(project)
  IN  d[CHOOSE i \in DOMAIN d : hit(i) /\ \A k \in 1..(i - 1) : ~hit(k)]

Unpaid(r) == {j \in DOMAIN Milestones :
                r[Milestones[j]].k = "num" /\ r[Milestones[j]].n > 0}

IsFirstUnpaid(r, lbl, amt) ==
  \E j \in Unpaid(r) :
    /\ \A k \in Unpaid(r) : j <= k
    /\ lbl = Milestones[j]
    /\ amt = r[Milestones[j]].n

Amounted(r) == \A j \in DOMAIN Milestones : r[Milestones[j]].k # "str"

C8_EmptyArchiveSkipped ==
  [][\A t \in ArchTables : files[t] = <<>> =>
       /\ \A m \in 1..MaxMonth : archive'[<<t, m>>] = archive[<<t, m>>]
       /\ \A s \in Sessions : ~ArchiveStep(s, t)]_vars

\* C9: a snapshot, once written, keeps the rows it was written with.
C9_SnapshotReadOnly ==
  [][\A a \in DOMAIN archive : archive[a].exists => archive'[a] = archive[a]]_vars

\* C10: the Dashboard shows income = sum of Total Paid, outstanding = sum of
\* Total Due, paid salaries = sum of Salary over the rows with Paid = "Yes",
\* expenses = sum of Amount + paid salaries, a missing or unparsable cell
\* counting as 0.
Coerced(x) == IF x \in Numerals THEN ParseFloat(x) ELSE 0

Total(rows, f) == SumSeq([i \in DOMAIN rows |-> Coerced(rows[i][f])])

PaidTotal(rows) ==
  SumSeq([i \in DOMAIN rows |->
            IF rows[i]["Paid"] = "Yes" THEN Coerced(rows[i]["Salary"]) ELSE 0])

C10_DashboardSums ==
  \A s \in Sessions : metrics[s].shown # "none" =>
    /\ metrics[s].shown = "metrics"
    /\ metrics[s].inc = Total(files["clients"], "Total Paid")
    /\ metrics[s].out = Total(files["clients"], "Total Due")
    /\ metrics[s].paid_sal = PaidTotal(files["salaries"])
    /\ metrics[s].exp_tot = Total(files["expenses"], "Amount") + PaidTotal(files["salaries"])

\* C11: role-based write protection.  A table file is written only in a run
\* of an authenticated session whose role holds the matching edit_ or add_
\* permission, and an archive file only under the matching archive_
\* permission; a session whose role is "view" or is not in the permission
\* map changes no table, archive or users file; a "staff" session writes no
\* archive and not the users file; only "admin" is on the Admin Panel.
Pressed(s) == pc[s] = "loaded" /\ pc'[s] # "loaded" /\ auth[s]

C11_RoleWriteProtection ==
  /\ [](\A s \in Sessions : page[s] = "Admin Panel" => role[s] = "admin")
  /\ [][/\ \A t \in FILES \ {"users"} : files'[t] # files[t] =>
             \E s \in Sessions :
               /\ Pressed(s)
               /\ \/ EditPerm(t) \in PERMISSIONS(role[s])
                  \/ t \in ArchTables /\ AddPerm(t) \in PERMISSIONS(role[s])
        /\ \A a \in DOMAIN archive : archive'[a] # archive[a] =>
             \E s \in Sessions :
               Pressed(s) /\ ArchivePerm(a[1]) \in PERMISSIONS(role[s])
        /\ \A s \in Sessions, t \in FILES \ {"users"} :
             /\ msg'[s] = SavedMsg(t) => Pressed(s) /\ role[s] \in {"admin", "staff"}
             /\ t \in ArchTables /\ msg'[s] = AddedMsg(t) =>
                  Pressed(s) /\ role[s] \in {"admin", "staff"}
             /\ t \in ArchTables /\ msg'[s] = ArchivedMsg(t) =>
                  Pressed(s) /\ role[s] = "admin"
        /\ \A s \in Sessions :
             msg'[s] = "Users updated." => Pressed(s) /\ role[s] = "admin"
        /\ files' # files \/ archive' # archive =>
             \E s \in Sessions : Pressed(s) /\ role[s] \in {"admin", "staff"}
        /\ files'["users"] # files["users"] \/ archive' # archive =>
             \E s \in Sessions : Pressed(s) /\ role[s] = "admin"]_vars

\* A session whose role is not in the permission map has been through the
\* Projects page, over a table, a snapshot and a users file that an admin
\* wrote before.
C11_Witness ==
  \E s \in Sessions :
    /\ auth[s] /\ role[s] = "boss"
    /\ page[s] = "Projects" /\ pc[s] = "idle"
    /\ files["projects"] # <<>>
    /\ archive[<<"projects", 1>>].exists
    /\ files["users"] # RolesFile

====
